---- MODULE Spec2Model ----
(***************************************************************************)
(* Model of the Dobot Magician trajectory controllers:                     *)
(*   RobotArcController       (execute_arc_trajectory.py,                  *)
(*                             circle_from_current_pos.py)                 *)
(*   Robot3DCircleController  (execute_3d_circle.py)                       *)
(* driving one arm (the magician object).                                  *)
(*                                                                         *)
(* Numbers.  Python floats are modelled in fixed point:                    *)
(*   - lengths (mm) are integers in units of 1/SCALE mm;                   *)
(*   - sines, cosines and the components of unit vectors are integers in   *)
(*     units of 1/TRIG;                                                    *)
(*   - angles (degrees) and the progress fraction are exact rationals      *)
(*     <<num, den>> in lowest terms with den > 0;                          *)
(*   - direction vectors are exact: [d |-> <<a,b,c>>, unit |-> FALSE] is   *)
(*     the integer vector d, [d |-> <<a,b,c>>, unit |-> TRUE] is d / |d|.  *)
(* Every intermediate product stays below 2^31.                            *)
(***************************************************************************)
EXTENDS Integers, Sequences, FiniteSets, TLC

SCALE == 10 * 10
TRIG == 100 * 100
\* Python's None for an optional argument, and Some(v) for a number v given
None == << >>
Some(v) == << v >>

----------------------------------------------------------------------------
(* Integer helpers                                                         *)

Abs(x) == IF x < 0 THEN -x ELSE x

Sgn(x) == IF x < 0 THEN -1 ELSE IF x > 0 THEN 1 ELSE 0

\* a / b rounded to the nearest integer, halves away from zero (b # 0)
RoundDiv(a, b) ==
    LET n == Abs(a)
        m == Abs(b)
        q == (2 * n + m) \div (2 * m)
    IN  IF Sgn(a) * Sgn(b) < 0 THEN -q ELSE q

\* a * b / c for 0 <= a, 0 <= b, 0 < c, without forming a * b when a is large
MulDiv(a, b, c) == (a \div c) * b + RoundDiv((a % c) * b, c)

RECURSIVE Gcd(_, _)
Gcd(a, b) == IF b = 0 THEN Abs(a) ELSE Gcd(b, a % Abs(b))

RECURSIVE SqrtSearch(_, _, _)
SqrtSearch(n, lo, hi) ==
    IF lo >= hi THEN lo
    ELSE LET mid == (lo + hi + 1) \div 2
         IN  IF mid * mid <= n THEN SqrtSearch(n, mid, hi)
             ELSE SqrtSearch(n, lo, mid - 1)

\* floor of the square root of n, 0 <= n < 2^31
ISqrt(n) == SqrtSearch(n, 0, 46340)

\* the square root of n rounded to the nearest integer
SqrtRound(n) ==
    LET r == ISqrt(n) IN IF n - r * r > r THEN r + 1 ELSE r

\* the factor k by which sqrt(n) is scaled so that k * sqrt(n) keeps four
\* significant digits and k * k * n stays below 2^31
NormScale(n) ==
    IF n <= 21 THEN 10000
    ELSE IF n <= 2147 THEN 1000
    ELSE 100

\* NormScale(n) * sqrt(n) rounded, for n >= 1
SqrtScaled(n) ==
    IF n <= 214748 THEN SqrtRound(n * NormScale(n) * NormScale(n))
    ELSE LET r == ISqrt(n)
         IN  100 * r + RoundDiv(100 * (n - r * r), 2 * r)

----------------------------------------------------------------------------
(* Rationals <<num, den>>                                                  *)

Rat(n, d) ==
    LET g == Gcd(n, d)
        s == IF d < 0 THEN -1 ELSE 1
    IN  IF g = 0 THEN <<0, 1>> ELSE <<s * (n \div g), s * (d \div g)>>

RatInt(k) == <<k, 1>>

RatAdd(p, q) == Rat(p[1] * q[2] + q[1] * p[2], p[2] * q[2])

RatMulInt(p, k) == Rat(p[1] * k, p[2])

----------------------------------------------------------------------------
(* math.sin, math.cos, math.radians                                        *)

PiMicro == 3141593

\* radians * TRIG of the angle t / b degrees, 0 <= t / b <= 45
Radians(t, b) == RoundDiv(t * PiMicro, b * 180 * 100)

\* Taylor series of sin at x / TRIG radians, 0 <= x / TRIG <= pi / 4
SinSeries(x) ==
    LET x2 == RoundDiv(x * x, TRIG)
        t3 == RoundDiv(x * x2, TRIG)
        t5 == RoundDiv(t3 * x2, TRIG)
        t7 == RoundDiv(t5 * x2, TRIG)
    IN  x - RoundDiv(t3, 6) + RoundDiv(t5, 120) - RoundDiv(t7, 5040)

\* Taylor series of cos at x / TRIG radians, 0 <= x / TRIG <= pi / 4
CosSeries(x) ==
    LET x2 == RoundDiv(x * x, TRIG)
        t4 == RoundDiv(x2 * x2, TRIG)
        t6 == RoundDiv(t4 * x2, TRIG)
        t8 == RoundDiv(t6 * x2, TRIG)
    IN  TRIG - RoundDiv(x2, 2) + RoundDiv(t4, 24) - RoundDiv(t6, 720)
             + RoundDiv(t8, 40320)

\* TRIG * sin of t / b degrees, 0 <= t / b <= 90
SinQuadrant(t, b) ==
    IF 2 * t <= 90 * b THEN SinSeries(Radians(t, b))
    ELSE CosSeries(Radians(90 * b - t, b))

\* TRIG * sin(q degrees) for a rational q
SinDeg(q) ==
    LET b == q[2]
        t == q[1] % (360 * b)
    IN  IF t <= 90 * b THEN SinQuadrant(t, b)
        ELSE IF t <= 180 * b THEN SinQuadrant(180 * b - t, b)
        ELSE IF t <= 270 * b THEN -SinQuadrant(t - 180 * b, b)
        ELSE -SinQuadrant(360 * b - t, b)

\* TRIG * cos(q degrees) for a rational q
CosDeg(q) == SinDeg(RatAdd(q, RatInt(90)))

----------------------------------------------------------------------------
(* numpy vectors                                                           *)

Zero3 == <<0, 0, 0>>

\* an integer vector, taken exactly
Exact(d) == [d |-> d, unit |-> FALSE]

Dot(a, b) == a[1] * b[1] + a[2] * b[2] + a[3] * b[3]

Cross(a, b) ==
    << a[2] * b[3] - a[3] * b[2],
       a[3] * b[1] - a[1] * b[3],
       a[1] * b[2] - a[2] * b[1] >>

Gcd3(d) == Gcd(Gcd(d[1], d[2]), d[3])

\* the integer vector d divided by the gcd of its components (d # 0)
Primitive(d) ==
    LET g == Gcd3(d) IN << d[1] \div g, d[2] \div g, d[3] \div g >>

\* 10 * |a| < 9 * |b| for a, b >= 0 given as their squares: 100 * a < 81 * b,
\* decided without forming the products
LessThanNineTenths(a, b) ==
    LET q == b \div 100
        r == b % 100
        e == a - 81 * q
    IN  IF e < 0 THEN TRUE
        ELSE IF e > 81 THEN FALSE
        ELSE 100 * e < 81 * r

\* normalize_vector: v / |v|, and v itself when |v| = 0
normalize_vector(v) ==
    IF v.d = Zero3 THEN v
    ELSE [d |-> Primitive(v.d), unit |-> TRUE]

\* the largest relative error, in unit round-offs (2^-53), that a double
\* computed on lines 55 to 59 is taken to have: the square root and the
\* quotient of normalize_vector, the three products and two sums of
\* np.dot and the product with n each add one at most
MaxRoundoffs == 8

\* a vector with at most one component that is not 0: v / |v| is exact
AxisAligned(d) == Cardinality({i \in 1..3 : d[i] # 0}) <= 1

\* the largest power of two that is at most |x|, for an integer x # 0:
\* doubles of the size of x are spaced 2^-52 * Binade(x) apart
RECURSIVE Binade(_)
Binade(x) == IF Abs(x) < 2 THEN 1 ELSE 2 * Binade(Abs(x) \div 2)

\* what x - fl(d * n_i) can be, in halves of the spacing of the doubles at
\* x, when d * n_i is x exactly: the rounded product is a double within
\* MaxRoundoffs round-offs of x and the subtraction is exact; the doubles
\* are spaced half as wide only below a power of two
Counts(x) ==
    IF x = 0 THEN {0}
    ELSE { k \in (-2 * MaxRoundoffs)..(2 * MaxRoundoffs) :
             /\ Abs(k) * Binade(x) <= MaxRoundoffs * Abs(x)
             /\ \/ k % 2 = 0
                \/ Abs(x) = Binade(x) /\ Sgn(k) = Sgn(x) }

\* a residue up to a positive factor
Direction(r) == IF r = Zero3 THEN Zero3 ELSE Primitive(r)

\* the directions of what the doubles can leave of
\* up_vector - dot(up_vector, n) * n when it is zero exactly: in each
\* component a count of spacings of the doubles at that component of
\* up_vector, nothing where the component is 0
Residues(up_vector) ==
    { Direction(<< k1 * Binade(up_vector[1]), k2 * Binade(up_vector[2]),
                   k3 * Binade(up_vector[3]) >>) :
        k1 \in Counts(up_vector[1]), k2 \in Counts(up_vector[2]),
        k3 \in Counts(up_vector[3]) }

\* a / b is a power of two or its negative: a / |normal| and b / |normal|
\* are then rounded alike, and so are the two products of a component of
\* cross(n, u) for u parallel to n
PowerOfTwoRatio(a, b) ==
    LET g  == Gcd(Abs(a), Abs(b))
        lo == (IF Abs(a) < Abs(b) THEN Abs(a) ELSE Abs(b)) \div g
        hi == (IF Abs(a) < Abs(b) THEN Abs(b) ELSE Abs(a)) \div g
    IN  lo = 1 /\ hi = Binade(hi)

\* the least e with 2^e * p >= nn, for 0 < p: p / nn lies in the doubles
\* spaced 2^-52 * 2^-e apart
RECURSIVE Depth(_, _)
Depth(p, nn) == IF p >= nn THEN 0 ELSE 1 + Depth(2 * p, nn)

\* what fl(n_j * u_k) - fl(n_k * u_j) can be for u = n or -n up to
\* round-off, a and b the components j and k of the normal and nn its
\* squared length: counts of half spacings of the doubles at a * b / nn,
\* each product within MaxRoundoffs round-offs of it
CrossCounts(a, b, nn) ==
    IF a = 0 \/ b = 0 \/ PowerOfTwoRatio(a, b) THEN {0}
    ELSE LET p == Abs(a * b)
             w == 2 ^ Depth(p, nn)
         IN  { k \in (-4 * MaxRoundoffs)..(4 * MaxRoundoffs) :
                 /\ Abs(k) * nn <= 2 * MaxRoundoffs * p * w
                 /\ (k % 2 = 0 \/ p * w = nn) }

\* the directions of what the doubles can leave of cross(n, u) when it is
\* zero exactly
CrossResidues(normal_vector) ==
    LET nn    == Dot(normal_vector, normal_vector)
        a(i)  == normal_vector[(i % 3) + 1]
        b(i)  == normal_vector[((i + 1) % 3) + 1]
        e(i)  == IF a(i) = 0 \/ b(i) = 0 THEN 0
                 ELSE Depth(Abs(a(i) * b(i)), nn)
        deep  == IF e(1) >= e(2) /\ e(1) >= e(3) THEN e(1)
                 ELSE IF e(2) >= e(3) THEN e(2) ELSE e(3)
        sp(i) == 2 ^ (deep - e(i))
    IN  { Direction(<< k1 * sp(1), k2 * sp(2), k3 * sp(3) >>) :
            k1 \in CrossCounts(a(1), b(1), nn),
            k2 \in CrossCounts(a(2), b(2), nn),
            k3 \in CrossCounts(a(3), b(3), nn) }

\* no round-off: every difference that is zero exactly is computed as zero
NoRounding == [u |-> Zero3, v |-> Zero3]

\* what the doubles of one build can leave on lines 55 (u) and 59 (v) for
\* normal_vector and up_vector. The arithmetic is exact unless a hint is
\* given that is parallel to a normal with two or more non-zero
\* components. Then n = normal / |normal| is rounded, and
\* up - dot(up, n) * n is zero or a residue of Residues(up_vector); if
\* that residue is parallel to n again, cross(n, u) is zero or a residue
\* of CrossResidues(normal_vector).
Roundings(normal_vector, up_vector) ==
    IF \/ up_vector = None
       \/ up_vector = Zero3
       \/ Cross(up_vector, normal_vector) # Zero3
       \/ AxisAligned(normal_vector)
    THEN { NoRounding }
    ELSE LET OfV(ru) ==
                 IF ru # Zero3 /\ Cross(normal_vector, ru) = Zero3
                 THEN CrossResidues(normal_vector)
                 ELSE { Zero3 }
         IN  UNION { { [u |-> ru, v |-> rv] : rv \in OfV(ru) } :
                     ru \in Residues(up_vector) }

\* up_vector - dot(up_vector, n) * n for an exact up_vector and n as
\* normalize_vector returns it (a unit vector or the zero vector); the
\* result is given up to a positive factor, which normalize_vector
\* removes. Where the exact difference is zero the doubles leave residue.
Reject(up, n, residue) ==
    IF n.d = Zero3 THEN up
    ELSE LET nn    == Dot(n.d, n.d)
             k     == Dot(up, n.d)
             exact == << nn * up[1] - k * n.d[1],
                         nn * up[2] - k * n.d[2],
                         nn * up[3] - k * n.d[3] >>
         IN  IF exact = Zero3 THEN residue ELSE exact

\* create_rotation_matrix: the columns u, v, n of the matrix, for the
\* round-off `rounding' of Roundings(normal_vector, up_vector)
create_rotation_matrix(normal_vector, up_vector, rounding) ==
    LET n  == normalize_vector(Exact(normal_vector))
        up == IF up_vector = None
              THEN IF LessThanNineTenths(n.d[1] * n.d[1],
                                         IF n.unit THEN Dot(n.d, n.d) ELSE 1)
                   THEN <<1, 0, 0>>
                   ELSE <<0, 1, 0>>
              ELSE up_vector
        u  == normalize_vector(Exact(Reject(up, n, rounding.u)))
        nu == Cross(n.d, u.d)
        v  == normalize_vector(Exact(IF nu = Zero3 THEN rounding.v ELSE nu))
    IN  [u |-> u, v |-> v, n |-> n]

\* TRIG * (component i of v) for a column of the rotation matrix
Component(v, i) ==
    IF ~v.unit THEN TRIG * v.d[i]
    ELSE LET nn == Dot(v.d, v.d)
         IN  Sgn(v.d[i]) * MulDiv(Abs(v.d[i]) * TRIG, NormScale(nn), SqrtScaled(nn))

----------------------------------------------------------------------------
(* Poses and results                                                       *)

\* a length given in mm, in fixed point
Mm(v) == v * SCALE

Pose(x, y, z, r) == [x |-> x, y |-> y, z |-> z, r |-> r]

\* a call that returns the list v
Return(v) == [kind |-> "value", value |-> v]

\* a call that raises exception e
Raise(e) == [kind |-> "exception", value |-> e]

\* a call that returns nothing, or no call
Nothing == [kind |-> "none", value |-> << >>]

Ok(res) == res.kind # "exception"

\* AngleList with the step taken over num_points instead of num_points - 1:
\* the end angle is left out
AngleListOpenEnded(start_angle, end_angle, num_points) ==
    LET angle_step == Rat(end_angle - start_angle, num_points)
    IN  [k \in 1..num_points |->
            RatAdd(RatInt(start_angle), RatMulInt(angle_step, k - 1))]

\* [start_angle + i * angle_step for i in range(num_points)], num_points # 1
AngleList(start_angle, end_angle, num_points) ==
    LET angle_step == Rat(end_angle - start_angle, num_points - 1)
    IN  [k \in 1..num_points |->
            RatAdd(RatInt(start_angle), RatMulInt(angle_step, k - 1))]

\* i / (num_points - 1), num_points # 1
Progress(i, num_points) == Rat(i, num_points - 1)

----------------------------------------------------------------------------
(* RobotArcController.calculate_arc_points                                 *)
(* a: center_x, center_y, center_z, radius, num_points, start_angle,       *)
(*    end_angle, start_z, end_z, z_variation_type (lengths in fixed point, *)
(*    radius, start_z, end_z possibly None); cur: self.current_pose        *)

\* ArcZ with a name that is none of the three keeping z at start_z
ArcZConstantFallback(z_variation_type, start_z, end_z, progress) ==
    IF z_variation_type = "linear"
    THEN start_z + RoundDiv((end_z - start_z) * progress[1], progress[2])
    ELSE IF z_variation_type = "sine"
    THEN start_z + RoundDiv((end_z - start_z)
                            * SinDeg(RatMulInt(progress, 180)), TRIG)
    ELSE IF z_variation_type = "cosine"
    THEN start_z + RoundDiv((end_z - start_z)
                            * (TRIG - CosDeg(RatMulInt(progress, 180))), 2 * TRIG)
    ELSE start_z

ArcZ(z_variation_type, start_z, end_z, progress) ==
    IF z_variation_type = "linear"
    THEN start_z + RoundDiv((end_z - start_z) * progress[1], progress[2])
    ELSE IF z_variation_type = "sine"
    THEN start_z + RoundDiv((end_z - start_z)
                            * SinDeg(RatMulInt(progress, 180)), TRIG)
    ELSE IF z_variation_type = "cosine"
    THEN start_z + RoundDiv((end_z - start_z)
                            * (TRIG - CosDeg(RatMulInt(progress, 180))), 2 * TRIG)
    ELSE start_z + RoundDiv((end_z - start_z) * progress[1], progress[2])

\* the body of the for loop: the point at one angle and progress
ArcPoint(cur, a, angle, progress) ==
    LET dx      == cur.x - a.center_x
        dy      == cur.y - a.center_y
        radius  == IF a.radius = None THEN SqrtRound(dx * dx + dy * dy)
                   ELSE a.radius[1]
        start_z == IF a.start_z = None THEN a.center_z + cur.z
                   ELSE a.center_z + a.start_z[1]
        end_z   == IF a.end_z = None THEN a.center_z + cur.z
                   ELSE a.center_z + a.end_z[1]
    IN  Pose(a.center_x + RoundDiv(radius * SinDeg(angle), TRIG),
             a.center_y + RoundDiv(radius * (-CosDeg(angle)), TRIG),
             ArcZ(a.z_variation_type, start_z, end_z, progress),
             cur.r)

calculate_arc_points(cur, a) ==
    IF a.num_points - 1 = 0 THEN Raise("ZeroDivisionError")
    ELSE LET angles == AngleList(a.start_angle, a.end_angle, a.num_points)
         IN  Return([k \in 1..a.num_points |->
                ArcPoint(cur, a, angles[k], Progress(k - 1, a.num_points))])

----------------------------------------------------------------------------
(* RobotArcController.calculate_circle_points_from_current_pos             *)
(* a: radius, num_points, start_angle, end_angle, z_offset,                *)
(*    z_variation_type; pose: what get_current_pose() returns              *)

CircleZ(z_variation_type, center_z, z_offset, progress) ==
    IF z_variation_type = "linear"
    THEN center_z + RoundDiv(z_offset * (2 * progress[1] - progress[2]),
                             progress[2])
    ELSE IF z_variation_type = "sine"
    THEN center_z + RoundDiv(z_offset * SinDeg(RatMulInt(progress, 360)), TRIG)
    ELSE IF z_variation_type = "cosine"
    THEN center_z + RoundDiv(z_offset * CosDeg(RatMulInt(progress, 360)), TRIG)
    ELSE center_z

\* the body of the for loop: the point at one angle and progress
CirclePoint(pose, a, angle, progress) ==
    Pose(pose.x + RoundDiv(a.radius * CosDeg(angle), TRIG),
         pose.y + RoundDiv(a.radius * SinDeg(angle), TRIG),
         CircleZ(a.z_variation_type, pose.z, a.z_offset, progress),
         pose.r)

calculate_circle_points_from_current_pos(pose, a) ==
    IF a.num_points - 1 = 0 THEN Raise("ZeroDivisionError")
    ELSE LET angles == AngleList(a.start_angle, a.end_angle, a.num_points)
         IN  Return([k \in 1..a.num_points |->
                CirclePoint(pose, a, angles[k],
                            IF a.num_points > 1
                            THEN Progress(k - 1, a.num_points)
                            ELSE RatInt(0))])

----------------------------------------------------------------------------
(* Robot3DCircleController.calculate_3d_circle_points                      *)
(* a: center, radius, normal_vector, num_points, start_angle, end_angle,   *)
(*    up_vector, and rounding: the round-off of the build's doubles in     *)
(*    create_rotation_matrix; pose: what get_current_pose() returns        *)

Angles3D(start_angle, end_angle, num_points) ==
    IF num_points = 1 THEN << RatInt(start_angle) >>
    ELSE AngleList(start_angle, end_angle, num_points)

\* rotation_matrix @ [local_x, local_y, 0] + center, component i
GlobalPoint(m, local_x, local_y, center, i) ==
    RoundDiv(Component(m.u, i) * local_x + Component(m.v, i) * local_y, TRIG)
        + center[i]

\* the body of the for loop: the point at one angle
Circle3DPoint(pose, a, angle) ==
    LET rotation_matrix == create_rotation_matrix(a.normal_vector, a.up_vector,
                                                  a.rounding)
        local_x == RoundDiv(a.radius * CosDeg(angle), TRIG)
        local_y == RoundDiv(a.radius * SinDeg(angle), TRIG)
    IN  Pose(GlobalPoint(rotation_matrix, local_x, local_y, a.center, 1),
             GlobalPoint(rotation_matrix, local_x, local_y, a.center, 2),
             GlobalPoint(rotation_matrix, local_x, local_y, a.center, 3),
             pose.r)

calculate_3d_circle_points(pose, a) ==
    LET angles == Angles3D(a.start_angle, a.end_angle, a.num_points)
    IN  Return([k \in 1..Len(angles) |-> Circle3DPoint(pose, a, angles[k])])

----------------------------------------------------------------------------
(* Robot3DCircleController.execute_circle_from_current_to_point: the       *)
(* arguments it passes to execute_3d_circle                                *)

Point3(pose) == << pose.x, pose.y, pose.z >>

Sub3(a, b) == << a[1] - b[1], a[2] - b[2], a[3] - b[3] >>

Mid3(a, b) == << RoundDiv(a[1] + b[1], 2), RoundDiv(a[2] + b[2], 2),
                 RoundDiv(a[3] + b[3], 2) >>

\* DerivedNormal without the test for a nearly vertical line
DerivedNormalAcrossZ(line_vector) == Cross(line_vector, <<0, 0, 1>>)

DerivedNormal(line_vector) ==
    IF LessThanNineTenths(line_vector[3] * line_vector[3],
                          Dot(line_vector, line_vector))
    THEN Cross(line_vector, <<0, 0, 1>>)
    ELSE Cross(line_vector, <<1, 0, 0>>)

SemicircleArgs(pose, target_point, num_points, plane_normal) ==
    LET current_point == Point3(pose)
        line_vector   == Sub3(target_point, current_point)
    IN  [center        |-> Mid3(current_point, target_point),
         radius        |-> RoundDiv(SqrtRound(Dot(line_vector, line_vector)), 2),
         normal_vector |-> IF plane_normal = None THEN DerivedNormal(line_vector)
                           ELSE plane_normal,
         num_points    |-> num_points,
         start_angle   |-> 0,
         end_angle     |-> 180,
         up_vector     |-> None,
         rounding      |-> NoRounding]

----------------------------------------------------------------------------
(* Inputs                                                                  *)

MaxPoints == 3
MaxExec == 1

NumPoints == 0..MaxPoints

OptMm(v) == IF v = None THEN None ELSE Some(Mm(v[1]))
Mm3(p) == << Mm(p[1]), Mm(p[2]), Mm(p[3]) >>

\* the arguments of calculate_arc_points / execute_arc_trajectory
ArcArgsOver(centers, radii, angles, zs, policies) ==
    { [center_x |-> Mm(c[1]), center_y |-> Mm(c[2]), center_z |-> Mm(c[3]),
       radius |-> OptMm(rad), num_points |-> n, start_angle |-> ang[1],
       end_angle |-> ang[2], start_z |-> OptMm(z[1]), end_z |-> OptMm(z[2]),
       z_variation_type |-> zt] :
      c \in centers, rad \in radii, n \in NumPoints, ang \in angles,
      z \in zs, zt \in policies }

\* the arguments of calculate_circle_points_from_current_pos /
\* execute_circle_from_current_pos
CircleArgsOver(radii, angles, offsets, policies) ==
    { [radius |-> Mm(rad), num_points |-> n, start_angle |-> ang[1],
       end_angle |-> ang[2], z_offset |-> Mm(zo), z_variation_type |-> zt] :
      rad \in radii, n \in NumPoints, ang \in angles, zo \in offsets,
      zt \in policies }

\* the arguments of calculate_3d_circle_points / execute_3d_circle, each
\* with every round-off the doubles can leave for its normal and hint
Circle3DArgsOver(centers, radii, normals, angles, ups) ==
    UNION { { [center |-> Mm3(c), radius |-> Mm(rad), normal_vector |-> nv,
               num_points |-> n, start_angle |-> ang[1],
               end_angle |-> ang[2], up_vector |-> up, rounding |-> ro] :
              ro \in Roundings(nv, up) } :
            c \in centers, rad \in radii, nv \in normals, n \in NumPoints,
            ang \in angles, up \in ups }

\* the arguments of execute_circle_from_current_to_point
ToPointArgsOver(targets, normals) ==
    { [target_point |-> Mm3(t), num_points |-> n, plane_normal |-> pn] :
      t \in targets, n \in NumPoints, pn \in normals }

\* the values the generators are called with on their own
Policies == {"linear", "sine", "cosine", "none", "spiral"}
Sweeps == {0, 90} \X {180, 360}
ArcCenters == {<<0, 0, 0>>, <<0, -200, 5>>}
ArcRadii == {None, Some(0), Some(50)}
ArcZs == {None, Some(-35)} \X {None, Some(10)}
CircleRadii == {0, 20}
ZOffsets == {0, 10}
Centers3D == {<<0, 0, 0>>, <<200, 0, 50>>}
Radii3D == {0, 30}
Normals == {<<0, 0, 1>>, <<0, 2, 0>>, <<1, 1, 1>>, <<-3, 0, 1>>, <<0, 0, 0>>}
UpVectors == {None, <<0, 0, 1>>, <<1, 0, 0>>, <<1, 2, 0>>}
\* normals off the axes, with components of equal and of different size,
\* also given as hints
Oblique == {<<1, 1, 0>>, <<1, 3, 0>>}
BasisComponents == {-1, 0, 1, 3}
BasisNormals == BasisComponents \X BasisComponents \X BasisComponents
BasisUpVectors == {None, <<1, 0, 0>>, <<0, 1, 0>>, <<0, 0, 1>>, <<0, 0, -2>>,
                   <<1, 2, 0>>, <<1, 1, 1>>, <<1, 3, 0>>}

ArcArgs == ArcArgsOver(ArcCenters, ArcRadii, Sweeps, ArcZs, Policies)
CircleArgs == CircleArgsOver(CircleRadii, Sweeps, ZOffsets, Policies)
Circle3DArgs ==
    Circle3DArgsOver(Centers3D, Radii3D, Normals, Sweeps, UpVectors)
        \cup Circle3DArgsOver({<<200, 0, 50>>}, {30}, Oblique, {<<0, 180>>},
                              Oblique)

\* the thinner set of values the methods are called with in sequence
SeqPolicies == {"linear", "spiral"}
SeqSweeps == {<<0, 180>>}
SeqArcZs == {<<None, None>>, <<Some(-35), Some(10)>>}
SeqZOffsets == {10}
SeqNormals == {<<0, 0, 1>>, <<0, 0, 0>>}
SeqUpVectors == {None, <<0, 0, 1>>}
Targets == {<<10, 0, 0>>, <<0, 0, 0>>, <<200, 0, 80>>}
PlaneNormals == {None, <<0, 0, 1>>}

SeqArcArgs == ArcArgsOver(ArcCenters, ArcRadii, SeqSweeps, SeqArcZs, SeqPolicies)
SeqCircleArgs == CircleArgsOver(CircleRadii, SeqSweeps, SeqZOffsets, SeqPolicies)
SeqCircle3DArgs ==
    Circle3DArgsOver(Centers3D, Radii3D, SeqNormals, SeqSweeps, SeqUpVectors)
ToPointArgs == ToPointArgsOver(Targets, PlaneNormals)

\* targets in every direction from the start poses: along the axes, steep
\* on either side of the nine-tenths test, and far away
WideTargets ==
    ({0, 1, 4} \X {0, 2} \X {-9, 0, 2, 9})
        \cup {<<200, 0, 80>>, <<0, -200, -30>>}
WideToPointArgs == ToPointArgsOver(WideTargets, PlaneNormals)

\* where the example scripts (and a zero-radius circle about the origin)
\* leave the arm before a controller is used
StartPoses == { Pose(Mm(0), Mm(-200), Mm(-30), 0),
                Pose(Mm(200), Mm(0), Mm(50), 0),
                Pose(0, 0, 0, 0) }

----------------------------------------------------------------------------
(* State                                                                   *)

VARIABLES
    armPose,        \* the arm: what magician.get_pose() returns
    current_pose,   \* RobotArcController.current_pose
    pc,             \* "idle", "moving" (in the for loop of an execute
                    \* method), "returned", "raised"
    op,             \* the public method called last: name, args, mode and
                    \* the arm pose at the call
    traj,           \* trajectory_points of the running execute method
    idx,            \* index of the next element of traj to command
    log,            \* calls made on magician by the current method, in order
    ret,            \* value returned (or exception raised) by the method
    nExec           \* execute methods called so far

vars == << armPose, current_pose, pc, op, traj, idx, log, ret, nExec >>

NoOp == [name |-> "none", args |-> None, mode |-> None, at |-> None]

GetPose(pose) == [call |-> "get_pose", mode |-> None, pose |-> pose]

Ptp(mode, pose) == [call |-> "ptp", mode |-> mode, pose |-> pose]

Init ==
    /\ armPose \in StartPoses
    /\ current_pose = Pose(Mm(0), Mm(-200), Mm(-30), Mm(0))
    /\ pc = "idle"
    /\ op = NoOp
    /\ traj = << >>
    /\ idx = 0
    /\ log = << >>
    /\ ret = Nothing
    /\ nExec = 0

\* Calculated with the generator leaving self.current_pose at the last
\* point it made
CalculatedStoringPose(name, a, queries, res) ==
    /\ op' = [name |-> name, args |-> a, mode |-> None, at |-> armPose]
    /\ log' = queries
    /\ ret' = res
    /\ pc' = IF Ok(res) THEN "returned" ELSE "raised"
    /\ current_pose' = IF Ok(res) /\ Len(res.value) > 0
                       THEN res.value[Len(res.value)]
                       ELSE current_pose
    /\ UNCHANGED << armPose, traj, idx, nExec >>

\* a call of a calculate method: it returns the points or raises
Calculated(name, a, queries, res) ==
    /\ op' = [name |-> name, args |-> a, mode |-> None, at |-> armPose]
    /\ log' = queries
    /\ ret' = res
    /\ pc' = IF Ok(res) THEN "returned" ELSE "raised"
    /\ UNCHANGED << armPose, current_pose, traj, idx, nExec >>

\* Started with a move to the pose the arm is at before the points are
\* calculated
StartedMovingFirst(name, a, mode, queries, res) ==
    /\ nExec < MaxExec
    /\ nExec' = nExec + 1
    /\ op' = [name |-> name, args |-> a, mode |-> mode, at |-> armPose]
    /\ log' = Append(queries, Ptp(mode, armPose))
    /\ IF Ok(res)
       THEN /\ traj' = res.value
            /\ idx' = 1
            /\ ret' = Nothing
            /\ pc' = "moving"
       ELSE /\ traj' = << >>
            /\ idx' = 0
            /\ ret' = res
            /\ pc' = "raised"
    /\ UNCHANGED << armPose, current_pose >>

\* a call of an execute method up to its for loop: the points are
\* calculated, or the calculation raises
Started(name, a, mode, queries, res) ==
    /\ nExec < MaxExec
    /\ nExec' = nExec + 1
    /\ op' = [name |-> name, args |-> a, mode |-> mode, at |-> armPose]
    /\ log' = queries
    /\ IF Ok(res)
       THEN /\ traj' = res.value
            /\ idx' = 1
            /\ ret' = Nothing
            /\ pc' = "moving"
       ELSE /\ traj' = << >>
            /\ idx' = 0
            /\ ret' = res
            /\ pc' = "raised"
    /\ UNCHANGED << armPose, current_pose >>

CalculateArcPoints(args) ==
    /\ pc = "idle"
    /\ \E a \in args :
        Calculated("calculate_arc_points", a, << >>,
                   calculate_arc_points(current_pose, a))

CalculateCirclePoints(args) ==
    /\ pc = "idle"
    /\ \E a \in args :
        Calculated("calculate_circle_points_from_current_pos", a,
                   << GetPose(armPose) >>,
                   calculate_circle_points_from_current_pos(armPose, a))

Calculate3DCirclePoints(args) ==
    /\ pc = "idle"
    /\ \E a \in args :
        Calculated("calculate_3d_circle_points", a, << GetPose(armPose) >>,
                   calculate_3d_circle_points(armPose, a))

CallCalculateArcPoints == CalculateArcPoints(SeqArcArgs)

CallCalculateCirclePoints == CalculateCirclePoints(SeqCircleArgs)

CallCalculate3DCirclePoints == Calculate3DCirclePoints(SeqCircle3DArgs)

CallExecuteArcTrajectory ==
    /\ pc = "idle"
    /\ \E a \in SeqArcArgs :
        Started("execute_arc_trajectory", a, 0, << >>,
                calculate_arc_points(current_pose, a))

CallExecuteCircleFromCurrentPos ==
    /\ pc = "idle"
    /\ \E a \in SeqCircleArgs :
        Started("execute_circle_from_current_pos", a, 1,
                << GetPose(armPose), GetPose(armPose) >>,
                calculate_circle_points_from_current_pos(armPose, a))

CallExecute3DCircle ==
    /\ pc = "idle"
    /\ \E a \in SeqCircle3DArgs :
        Started("execute_3d_circle", a, 1, << GetPose(armPose) >>,
                calculate_3d_circle_points(armPose, a))

CallExecuteCircleFromCurrentToPoint ==
    /\ pc = "idle"
    /\ \E a \in ToPointArgs :
        Started("execute_circle_from_current_to_point", a, 1,
                << GetPose(armPose), GetPose(armPose) >>,
                calculate_3d_circle_points(armPose,
                    SemicircleArgs(armPose, a.target_point, a.num_points,
                                   a.plane_normal)))

\* MoveStep with the loop stepping over every second point
MoveStepSkipping ==
    /\ pc = "moving"
    /\ idx <= Len(traj)
    /\ log' = Append(log, Ptp(op.mode, traj[idx]))
    /\ armPose' = traj[idx]
    /\ idx' = idx + 2
    /\ UNCHANGED << current_pose, pc, op, traj, ret, nExec >>

\* MoveStep with the commanded pose kept in self.current_pose
MoveStepTrackingPose ==
    /\ pc = "moving"
    /\ idx <= Len(traj)
    /\ log' = Append(log, Ptp(op.mode, traj[idx]))
    /\ armPose' = traj[idx]
    /\ current_pose' = traj[idx]
    /\ idx' = idx + 1
    /\ UNCHANGED << pc, op, traj, ret, nExec >>

\* MoveStep with the pose read back after the move
MoveStepRequerying ==
    /\ pc = "moving"
    /\ idx <= Len(traj)
    /\ log' = Append(Append(log, Ptp(op.mode, traj[idx])), GetPose(traj[idx]))
    /\ armPose' = traj[idx]
    /\ idx' = idx + 1
    /\ UNCHANGED << current_pose, pc, op, traj, ret, nExec >>

\* one iteration of the for loop: magician.ptp(mode, x, y, z, r)
MoveStep ==
    /\ pc = "moving"
    /\ idx <= Len(traj)
    /\ log' = Append(log, Ptp(op.mode, traj[idx]))
    /\ armPose' = traj[idx]
    /\ idx' = idx + 1
    /\ UNCHANGED << current_pose, pc, op, traj, ret, nExec >>

\* the for loop is exhausted: the execute method returns
LoopExit ==
    /\ pc = "moving"
    /\ idx > Len(traj)
    /\ pc' = "returned"
    /\ UNCHANGED << armPose, current_pose, op, traj, idx, log, ret, nExec >>

\* the caller goes on after the call: the method's locals are gone
Resume ==
    /\ pc \in {"returned", "raised"}
    /\ pc' = "idle"
    /\ op' = NoOp
    /\ traj' = << >>
    /\ idx' = 0
    /\ log' = << >>
    /\ ret' = Nothing
    /\ UNCHANGED << armPose, current_pose, nExec >>

Next ==
    \/ CallCalculateArcPoints
    \/ CallCalculateCirclePoints
    \/ CallCalculate3DCirclePoints
    \/ CallExecuteArcTrajectory
    \/ CallExecuteCircleFromCurrentPos
    \/ CallExecute3DCircle
    \/ CallExecuteCircleFromCurrentToPoint
    \/ MoveStep
    \/ LoopExit
    \/ Resume

Spec == Init /\ [][Next]_vars

\* the for loop of an execute method runs on once entered: ptp and
\* time.sleep come back
SpecFair == Spec /\ WF_vars(MoveStep) /\ WF_vars(LoopExit)

----------------------------------------------------------------------------
(* The generators and create_rotation_matrix called on their own, over the *)
(* full product of the input values                                        *)

GenCalculateArcPoints == CalculateArcPoints(ArcArgs)

GenCalculateCirclePoints == CalculateCirclePoints(CircleArgs)

GenCalculate3DCirclePoints == Calculate3DCirclePoints(Circle3DArgs)

CallCreateRotationMatrix ==
    /\ pc = "idle"
    /\ \E nv \in BasisNormals, up \in BasisUpVectors :
        \E ro \in Roundings(nv, up) :
            Calculated("create_rotation_matrix",
                       [normal_vector |-> nv, up_vector |-> up,
                        rounding |-> ro], << >>,
                       Return(create_rotation_matrix(nv, up, ro)))

GenNext ==
    \/ GenCalculateArcPoints
    \/ GenCalculateCirclePoints
    \/ GenCalculate3DCirclePoints
    \/ CallCreateRotationMatrix
    \/ Resume

SpecGen == Init /\ [][GenNext]_vars

----------------------------------------------------------------------------
(* execute_circle_from_current_to_point called over targets in every       *)
(* direction                                                               *)

PlaneExecuteCircleFromCurrentToPoint ==
    /\ pc = "idle"
    /\ \E a \in WideToPointArgs :
        Started("execute_circle_from_current_to_point", a, 1,
                << GetPose(armPose), GetPose(armPose) >>,
                calculate_3d_circle_points(armPose,
                    SemicircleArgs(armPose, a.target_point, a.num_points,
                                   a.plane_normal)))

PlaneNext ==
    \/ PlaneExecuteCircleFromCurrentToPoint
    \/ MoveStep
    \/ LoopExit
    \/ Resume

SpecPlane == Init /\ [][PlaneNext]_vars

----------------------------------------------------------------------------
(* Properties                                                              *)

Generators == {"calculate_arc_points",
               "calculate_circle_points_from_current_pos",
               "calculate_3d_circle_points"}

\* a call of a generator has come back (returned or raised)
GeneratorDone == pc \in {"returned", "raised"} /\ op.name \in Generators

\* what generator name makes of one angle and progress, for arguments a,
\* the stored pose cur and the arm pose `pose'
PointAt(name, a, cur, pose, angle, progress) ==
    IF name = "calculate_arc_points" THEN ArcPoint(cur, a, angle, progress)
    ELSE IF name = "calculate_circle_points_from_current_pos"
    THEN CirclePoint(pose, a, angle, progress)
    ELSE Circle3DPoint(pose, a, angle)

\* C1: for num_points = 1 each of the three generators returns exactly one
\* pose, computed at start_angle with progress 0, and does not divide by
\* zero.
C1_SinglePoint ==
    (GeneratorDone /\ op.args.num_points = 1)
        => /\ Ok(ret)
           /\ Len(ret.value) = 1
           /\ ret.value[1] = PointAt(op.name, op.args, current_pose, op.at,
                                     RatInt(op.args.start_angle), RatInt(0))

\* C2: for num_points = N >= 2 each generator returns exactly N poses; pose
\* i (i = 0..N-1) is the one at angle
\* start_angle + i * (end_angle - start_angle) / (N - 1) and progress
\* i / (N - 1), so the first is at start_angle with progress 0 and the last
\* at end_angle with progress 1.
C2_EvenlySpaced ==
    (GeneratorDone /\ op.args.num_points >= 2)
        => LET a == op.args
               N == a.num_points
               Expected(angle, progress) ==
                   PointAt(op.name, a, current_pose, op.at, angle, progress)
           IN  /\ Ok(ret)
               /\ Len(ret.value) = N
               /\ \A i \in 0..(N - 1) :
                      ret.value[i + 1] =
                          Expected(Rat(a.start_angle * (N - 1)
                                       + i * (a.end_angle - a.start_angle), N - 1),
                                   Rat(i, N - 1))
               /\ ret.value[1] = Expected(RatInt(a.start_angle), RatInt(0))
               /\ ret.value[N] = Expected(RatInt(a.end_angle), RatInt(1))

\* a generator has returned MaxPoints distinct poses of a quarter-to-half
\* sweep on a tilted circle
C2_Witness ==
    /\ GeneratorDone
    /\ op.name = "calculate_3d_circle_points"
    /\ op.args.num_points = MaxPoints
    /\ op.args.start_angle = 90
    /\ op.args.end_angle = 180
    /\ op.args.normal_vector = <<1, 1, 1>>
    /\ Ok(ret)
    /\ Len(ret.value) = MaxPoints
    /\ ret.value[1] # ret.value[2]
    /\ ret.value[2] # ret.value[MaxPoints]

\* two poses at the same place, to the last digit kept
Near(p, q) ==
    /\ Abs(p.x - q[1]) <= 1
    /\ Abs(p.y - q[2]) <= 1
    /\ Abs(p.z - q[3]) <= 1

\* the move commands of the log, in order
Moves == SelectSeq(log, LAMBDA e : e.call = "ptp")

\* C3: execute_circle_from_current_to_point without plane_normal, from the
\* pose (0,0,0) to the target (10,0,0): the center is (5,0,0), the radius
\* is 5, the first pose generated and commanded is the start point (0,0,0)
\* and the last is the target point (10,0,0).
C3_SemicircleStartToTarget ==
    ( /\ pc = "returned"
      /\ op.name = "execute_circle_from_current_to_point"
      /\ Point3(op.at) = <<0, 0, 0>>
      /\ op.args.target_point = Mm3(<<10, 0, 0>>)
      /\ op.args.plane_normal = None
      /\ op.args.num_points >= 2 )
        => LET circle == SemicircleArgs(op.at, op.args.target_point,
                                        op.args.num_points, op.args.plane_normal)
               N == op.args.num_points
           IN  /\ circle.center = Mm3(<<5, 0, 0>>)
               /\ circle.radius = Mm(5)
               /\ Len(traj) = N
               /\ Len(Moves) = N
               /\ Near(traj[1], <<0, 0, 0>>)
               /\ Near(traj[N], Mm3(<<10, 0, 0>>))
               /\ Near(Moves[1].pose, <<0, 0, 0>>)
               /\ Near(Moves[N].pose, Mm3(<<10, 0, 0>>))

\* C4: num_points = 0 is rejected: no generator returns a pose sequence for
\* it, and the execute operations report an error instead of completing.
C4_ZeroPointsRejected ==
    (op.name # "none" /\ op.args.num_points = 0)
        => (pc = "raised" /\ ~Ok(ret))

ArcPolicies == {"linear", "sine", "cosine"}

CirclePolicies == {"linear", "sine", "cosine", "none"}

WithPolicy(a, zt) == [a EXCEPT !.z_variation_type = zt]

\* the z values of a returned pose sequence
Zs(res) == [k \in 1..Len(res.value) |-> res.value[k].z]

\* a call of calculate_arc_points with a name that is none of its three
ArcUnrecognized ==
    /\ GeneratorDone
    /\ op.name = "calculate_arc_points"
    /\ op.args.z_variation_type \notin ArcPolicies

\* a call of calculate_circle_points_from_current_pos with a name that is
\* none of its four
CircleUnrecognized ==
    /\ GeneratorDone
    /\ op.name = "calculate_circle_points_from_current_pos"
    /\ op.args.z_variation_type \notin CirclePolicies

\* C5 as claimed (num_points = 1 set aside, see C1): with a policy name
\* that is none of the recognized ones, both generators return, and every
\* pose has the z that policy "linear" gives for the same arguments.
C5_FallsBackToLinear ==
    /\ (ArcUnrecognized /\ op.args.num_points # 1)
          => /\ Ok(ret)
             /\ Zs(ret) = Zs(calculate_arc_points(current_pose,
                                  WithPolicy(op.args, "linear")))
    /\ (CircleUnrecognized /\ op.args.num_points # 1)
          => /\ Ok(ret)
             /\ Zs(ret) = Zs(calculate_circle_points_from_current_pos(op.at,
                                  WithPolicy(op.args, "linear")))

\* C5 amended: an unrecognized policy name is handled as "linear" by
\* calculate_arc_points and as "none" by
\* calculate_circle_points_from_current_pos (z stays at the center's z):
\* the call's outcome is the outcome of the call with that name.
C5_UnrecognizedPolicy ==
    /\ ArcUnrecognized
          => ret = calculate_arc_points(current_pose,
                                        WithPolicy(op.args, "linear"))
    /\ CircleUnrecognized
          => /\ ret = calculate_circle_points_from_current_pos(op.at,
                          WithPolicy(op.args, "none"))
             /\ Ok(ret) => \A k \in 1..Len(ret.value) :
                                ret.value[k].z = op.at.z

\* the arc generator has returned a rising arc for an unrecognized name
C5_Witness ==
    /\ ArcUnrecognized
    /\ op.args.z_variation_type = "spiral"
    /\ op.args.num_points = MaxPoints
    /\ op.args.start_z # None
    /\ op.args.end_z # None
    /\ Ok(ret)
    /\ ret.value[1].z < ret.value[2].z
    /\ ret.value[2].z < ret.value[MaxPoints].z

Executes == {"execute_arc_trajectory", "execute_circle_from_current_pos",
             "execute_3d_circle", "execute_circle_from_current_to_point"}

\* what the generator behind the method o.name makes of the arguments
\* o.args, the stored pose cur and the arm pose `pose'
Generated(o, cur, pose) ==
    IF o.name \in {"calculate_arc_points", "execute_arc_trajectory"}
    THEN calculate_arc_points(cur, o.args)
    ELSE IF o.name \in {"calculate_circle_points_from_current_pos",
                        "execute_circle_from_current_pos"}
    THEN calculate_circle_points_from_current_pos(pose, o.args)
    ELSE IF o.name \in {"calculate_3d_circle_points", "execute_3d_circle"}
    THEN calculate_3d_circle_points(pose, o.args)
    ELSE calculate_3d_circle_points(pose,
             SemicircleArgs(pose, o.args.target_point, o.args.num_points,
                            o.args.plane_normal))

\* the moves made so far are those to the first idx - 1 generated poses,
\* in order and in the method's mode; on return, to all of them
MovesFollowTrajectory ==
    (op.name \in Executes /\ pc \in {"moving", "returned"})
        => /\ traj = Generated(op, current_pose, op.at).value
           /\ idx \in 1..(Len(traj) + 1)
           /\ Moves = [k \in 1..(idx - 1) |-> Ptp(op.mode, traj[k])]
           /\ pc = "returned" => idx = Len(traj) + 1

\* C6: an execute operation issues exactly one move command per element
\* of the generated pose sequence, in index order and with that element's
\* pose, issues no other move command, and then terminates.
C6_OneMovePerPose ==
    /\ []MovesFollowTrajectory
    /\ (pc = "moving") ~> (pc = "returned")

\* an execute operation has returned after MaxPoints moves to distinct poses
C6_Witness ==
    /\ pc = "returned"
    /\ op.name = "execute_circle_from_current_pos"
    /\ Len(traj) = MaxPoints
    /\ Len(Moves) = MaxPoints
    /\ Moves[1].pose # Moves[MaxPoints].pose
    /\ armPose = traj[MaxPoints]

\* the pose queries of the log, in order
Queries == SelectSeq(log, LAMBDA e : e.call = "get_pose")

\* no pose query comes after a move command
QueriesFirst ==
    \A j, k \in 1..Len(log) :
        (j < k /\ log[j].call = "ptp") => log[k].call = "ptp"

\* C7 as claimed: during one operation the live pose is read at most once,
\* and never after the first move command.
C7_SingleQuery ==
    /\ Len(Queries) <= 1
    /\ QueriesFirst

\* how often each method reads the live pose
QueryCount(name) ==
    IF name \in {"calculate_arc_points", "execute_arc_trajectory"} THEN 0
    ELSE IF name \in {"execute_circle_from_current_pos",
                      "execute_circle_from_current_to_point"} THEN 2
    ELSE 1

\* C7 amended: every read of the live pose comes before the first move
\* command of the operation; the arc methods read it 0 times, the circle
\* and 3D generators and execute_3d_circle once, and
\* execute_circle_from_current_pos and execute_circle_from_current_to_point
\* twice (once themselves, once in the generator they call).
C7_QueriesBeforeMoves ==
    /\ QueriesFirst
    /\ op.name # "none" => Len(Queries) = QueryCount(op.name)

\* a semicircle to a target has been driven: two queries, then the moves
C7_Witness ==
    /\ pc = "returned"
    /\ op.name = "execute_circle_from_current_to_point"
    /\ Len(Queries) = 2
    /\ Len(Moves) = MaxPoints
    /\ Len(log) = MaxPoints + 2

\* C8: a generator called again with the same arguments, in the state its
\* first call left behind, returns what the first call returned; this
\* holds in every reachable state, also after an execute operation has
\* moved the arm.
C8_Idempotent ==
    GeneratorDone => ret = Generated(op, current_pose, armPose)

\* a generator that reads the live pose has returned after the arm was
\* moved away from where it started
C8_Witness ==
    /\ GeneratorDone
    /\ op.name = "calculate_circle_points_from_current_pos"
    /\ nExec >= 1
    /\ armPose \notin StartPoses
    /\ Ok(ret)
    /\ Len(ret.value) = MaxPoints
    /\ ret.value[1] # ret.value[MaxPoints]

\* a column of the rotation matrix is a unit vector
IsUnit(c) == c.unit /\ c.d # Zero3

\* the columns u, v, n of m are unit vectors orthogonal to each other
Orthonormal(m) ==
    /\ IsUnit(m.u) /\ IsUnit(m.v) /\ IsUnit(m.n)
    /\ Dot(m.u.d, m.v.d) = 0
    /\ Dot(m.v.d, m.n.d) = 0
    /\ Dot(m.u.d, m.n.d) = 0

\* C9: for every non-zero normal and every up-direction hint, omitted or
\* supplied, also one parallel to the normal, create_rotation_matrix
\* returns three non-zero, unit-length, mutually orthogonal vectors.
C9_OrthonormalBasis ==
    ( /\ pc = "returned"
      /\ op.name = "create_rotation_matrix"
      /\ op.args.normal_vector # Zero3 )
        => Orthonormal(ret.value)

\* an operation asked for at least one point of a circle whose normal is
\* (0, 0, 0)
ZeroNormalCall ==
    \/ /\ op.name \in {"calculate_3d_circle_points", "execute_3d_circle"}
       /\ op.args.num_points >= 1
       /\ op.args.normal_vector = Zero3
    \/ /\ op.name = "execute_circle_from_current_to_point"
       /\ op.args.num_points >= 1
       /\ SemicircleArgs(op.at, op.args.target_point, op.args.num_points,
                         op.args.plane_normal).normal_vector = Zero3

\* C10: a zero-length normal is rejected up front: the operation reports
\* an error, and produces no pose sequence and no move command.
C10_ZeroNormalRejected ==
    ZeroNormalCall
        => /\ pc = "raised"
           /\ ~Ok(ret)
           /\ traj = << >>
           /\ Moves = << >>

\* the radius of the circle the method o.name works with: given, derived
\* from the stored pose cur, or half the distance to the target
RadiusUsed(o, cur) ==
    IF o.name \in {"calculate_arc_points", "execute_arc_trajectory"}
    THEN IF o.args.radius = None
         THEN SqrtRound((cur.x - o.args.center_x) * (cur.x - o.args.center_x)
                        + (cur.y - o.args.center_y) * (cur.y - o.args.center_y))
         ELSE o.args.radius[1]
    ELSE IF o.name = "execute_circle_from_current_to_point"
    THEN SemicircleArgs(o.at, o.args.target_point, o.args.num_points,
                        o.args.plane_normal).radius
    ELSE o.args.radius

\* an operation asked for two or more points of a circle of radius 0
ZeroRadiusCall ==
    /\ op.name # "none"
    /\ op.args.num_points >= 2
    /\ RadiusUsed(op, current_pose) = 0

\* C11: a radius of 0, passed, derived by calculate_arc_points or computed
\* in the two-point construction, is reported as an error: no trajectory
\* is returned or driven for it.
C11_ZeroRadiusRejected ==
    ZeroRadiusCall
        => /\ pc = "raised"
           /\ ~Ok(ret)
           /\ traj = << >>
           /\ Moves = << >>

\* a semicircle to a target away from the start, the plane left to the
\* method
TwoPointCall ==
    /\ op.name = "execute_circle_from_current_to_point"
    /\ op.args.plane_normal = None
    /\ op.args.target_point # Point3(op.at)

\* C12: in the two-point construction without plane_normal and with
\* target # start, the derived normal is non-zero and perpendicular to the
\* line vector target - start: it is line x (0,0,1) when
\* |line.z| < 0.9 * |line| and line x (1,0,0) otherwise, and neither cross
\* product is zero in its branch.
C12_DerivedNormal ==
    TwoPointCall
        => LET line   == Sub3(op.args.target_point, Point3(op.at))
               normal == SemicircleArgs(op.at, op.args.target_point,
                                        op.args.num_points,
                                        op.args.plane_normal).normal_vector
               flat   == LessThanNineTenths(line[3] * line[3], Dot(line, line))
           IN  /\ normal # Zero3
               /\ Dot(normal, line) = 0
               /\ flat => /\ normal = << line[2], -line[1], 0 >>
                          /\ line[1] # 0 \/ line[2] # 0
               /\ ~flat => /\ normal = << 0, line[3], -line[2] >>
                           /\ line[3] # 0

\* a semicircle along a vertical line has been driven
C12_Witness ==
    /\ TwoPointCall
    /\ pc = "returned"
    /\ op.at.x = op.args.target_point[1]
    /\ op.at.y = op.args.target_point[2]
    /\ Len(Moves) = MaxPoints
    /\ Moves[1].pose # Moves[2].pose

\* C13: an execute operation generates the complete pose sequence before
\* its first move command: when generation fails the operation raises
\* with no move command issued and the arm where it was, and any move
\* issued follows a complete, successfully generated sequence.
C13_GeneratedBeforeMoves ==
    op.name \in Executes
        => LET generated == Generated(op, current_pose, op.at)
           IN  /\ ~Ok(generated) => /\ pc = "raised"
                                    /\ ret = generated
                                    /\ Moves = << >>
                                    /\ armPose = op.at
               /\ Moves # << >> => /\ Ok(generated)
                                   /\ traj = generated.value
               /\ pc = "raised" => Moves = << >>

\* an execute operation has failed generating its single point, after
\* reading the pose twice
C13_Witness ==
    /\ pc = "raised"
    /\ op.name = "execute_circle_from_current_pos"
    /\ op.args.num_points = 1
    /\ ret = Raise("ZeroDivisionError")
    /\ Len(log) = 2
    /\ Moves = << >>

\* the value the constructor gives self.current_pose
ConstructorPose == Pose(Mm(0), Mm(-200), Mm(-30), 0)

\* C14: no operation writes self.current_pose: it keeps the constructor
\* value (0, -200, -30, 0) through every sequence of calculate and execute
\* operations, and calculate_arc_points works from that pose (default
\* radius, default start/end z, r of every pose), never from a pose the
\* arm has reached.
C14_StoredPoseFixed ==
    /\ current_pose = ConstructorPose
    /\ (GeneratorDone /\ op.name = "calculate_arc_points")
          => /\ ret = calculate_arc_points(ConstructorPose, op.args)
             /\ Ok(ret) => \A k \in 1..Len(ret.value) :
                                ret.value[k].r = ConstructorPose.r
    /\ (op.name = "execute_arc_trajectory" /\ pc \in {"moving", "returned"})
          => /\ traj = calculate_arc_points(ConstructorPose, op.args).value
             /\ \A k \in 1..Len(traj) : traj[k].r = ConstructorPose.r

\* calculate_arc_points has derived radius and z from the stored pose
\* after an execute operation left the arm somewhere else
C14_Witness ==
    /\ GeneratorDone
    /\ op.name = "calculate_arc_points"
    /\ nExec >= 1
    /\ Point3(armPose) # Point3(ConstructorPose)
    /\ op.args.radius = None
    /\ op.args.start_z = None
    /\ op.args.center_y = 0
    /\ op.args.num_points = MaxPoints
    /\ Ok(ret)
    /\ ret.value[1] = Pose(0, Mm(-200), Mm(-30), 0)
    /\ ret.value[1] # ret.value[MaxPoints]

====
